---- MODULE Spec2Model ----
(***************************************************************************)
(* A model of the metrics and risk-scoring pipeline of streamlit_app.py:   *)
(* process_agent_data (normalised table -> full-period agent table),       *)
(* calculate_risk_score (one agent record -> score, level, issues), the    *)
(* two pd.cut classifications, and the part of main() that applies the     *)
(* sidebar filters and re-aggregates a week sub-range.                     *)
(*                                                                         *)
(* Numbers.  A cell of the uploaded table is an integer (pd.to_numeric has *)
(* already run; cells are finite).  A derived value is an exact rational   *)
(* <<n, d>> with d > 0; comparisons cross-multiply.  Floating-point        *)
(* rounding of the quotients is not modelled.                              *)
(*                                                                         *)
(* Tables.  A DataFrame is the set of its rows; two rows of a table differ *)
(* in at least one cell.  'Smoker %' and 'CC %' are carried by the code    *)
(* but read by no derived metric and are left out of the rows.             *)
(***************************************************************************)
EXTENDS Integers, Sequences, FiniteSets, TLC

VARIABLES pc, df, experienced_agents, individual_data,
          date_range_option, start_week, end_week,
          selected_agents, selected_tiers,
          filtered_individual_data, agent_totals,
          filtered_experienced_agents, filtered_agents, risk_data,
          agent_row, risk_result, pct_value, cut_result, pending_rules,
          df_columns

vars == <<pc, df, experienced_agents, individual_data,
          date_range_option, start_week, end_week,
          selected_agents, selected_tiers,
          filtered_individual_data, agent_totals,
          filtered_experienced_agents, filtered_agents, risk_data,
          agent_row, risk_result, pct_value, cut_result, pending_rules,
          df_columns>>

(***************************************************************************)
(* Bounds of the model.                                                    *)
(***************************************************************************)
\* largest number of rows of an uploaded table
MaxRows == 4
\* the classifiers are tried on every half-integer of -Margin .. 100 + Margin
Margin == 3
\* the risk scorer is tried on the integers within RiskSpread of each threshold
RiskSpread == 1

(***************************************************************************)
(* Exact rationals.                                                        *)
(***************************************************************************)
Q(n, d) == <<n, d>>
QInt(n) == <<n, 1>>
Lt(a, b) == a[1] * b[2] < b[1] * a[2]
Le(a, b) == a[1] * b[2] <= b[1] * a[2]
Gt(a, b) == Lt(b, a)
Ge(a, b) == Le(b, a)
EqQ(a, b) == a[1] * b[2] = b[1] * a[2]
AddQ(a, b) == <<a[1] * b[2] + b[1] * a[2], a[2] * b[2]>>
\* a * k / m for integers k, m > 0
ScaleQ(a, k, m) == <<a[1] * k, a[2] * m>>

RECURSIVE SumOver(_, _)
\* sum of f[x] over the finite set S
SumOver(S, f) ==
    IF S = {} THEN 0
    ELSE LET x == CHOOSE y \in S : TRUE
         IN  f[x] + SumOver(S \ {x}, f)

\* a missing value (pandas NaN) in a label column
NaN == "NaN"

(***************************************************************************)
(* The uploaded table: rows over two agents, the reserved label 'Total'    *)
(* and three week labels.  The cells of a row are taken from a catalogue   *)
(* that sits on and around the thresholds of the code.                     *)
(***************************************************************************)
Agents == {"a1", "a2"}
WeekLabels == {"W1", "W2", "W3"}
TotalLabel == "Total"

Cells(q1, q2, sub, fl, pref, std, graded, gi) ==
    [Quotes1 |-> q1, Quotes2 |-> q2, Submitted |-> sub, FreeLook |-> fl,
     Preferred |-> pref, Standard |-> std, Graded |-> graded, GI |-> gi]

\* cells of period-total rows
TotalCells ==
    { Cells(100, 50, 30, 3, 50, 20, 5, 10),
      Cells(50, 0, 10, -1, 0, 40, 30, 41),
      Cells(40, 20, 30, 6, 20, 30, 20, 35),
      Cells(100, 50, 9, 1, 30, 30, 10, 20) }

\* cells of weekly rows
WeekCells ==
    { Cells(25, 12, 8, 1, 50, 20, 5, 10),
      Cells(0, 0, 3, 0, 20, 10, 40, 30) }

Row(a, w, c) ==
    [Agent |-> a, Week |-> w, Quotes1 |-> c.Quotes1, Quotes2 |-> c.Quotes2,
     Submitted |-> c.Submitted, FreeLook |-> c.FreeLook,
     Preferred |-> c.Preferred, Standard |-> c.Standard,
     Graded |-> c.Graded, GI |-> c.GI]

\* df.columns of an upload that has every column of the model
AllColumns ==
    {"Agent", "Week", "Quotes1", "Quotes2", "Submitted", "FreeLook",
     "Preferred", "Standard", "Graded", "GI"}

RowUniverse ==
    { Row(a, TotalLabel, c) : a \in Agents, c \in TotalCells }
    \cup { Row(a, w, c) : a \in Agents, w \in WeekLabels, c \in WeekCells }

RECURSIVE TablesUpTo(_)
\* every table of at most k rows
TablesUpTo(k) ==
    IF k = 0 THEN {{}}
    ELSE LET prev == TablesUpTo(k - 1)
         IN  prev \cup { t \cup {r} : t \in prev, r \in RowUniverse }

(***************************************************************************)
(* pd.cut(x, bins, labels) with its defaults right=True,                   *)
(* include_lowest=False: the position of x is searchsorted(bins, x,        *)
(* side='left'), the number of edges strictly below x; position 0 (x at or *)
(* below the first edge) and position len(bins) (x above the last edge)    *)
(* give a missing value, position i gives labels[i].                       *)
(***************************************************************************)
searchsorted_left(bins, x) ==
    Cardinality({ i \in 1..Len(bins) : Lt(QInt(bins[i]), x) })

pd_cut(x, bins, labels) ==
    LET ids == searchsorted_left(bins, x)
    IN  IF ids = 0 \/ ids = Len(bins) THEN NaN ELSE labels[ids]

\* the edge between Good and Excellent put at 50
quality_bins_edge_50 == <<0, 20, 30, 50, 100>>

quality_bins == <<0, 20, 30, 40, 100>>
quality_labels == <<"Poor", "Average", "Good", "Excellent">>
risk_bins == <<0, 20, 35, 100>>
risk_labels == <<"Low Risk", "Medium Risk", "High Risk">>

Quality_Tier(preferred) == pd_cut(preferred, quality_bins, quality_labels)
Risk_Profile(gi) == pd_cut(gi, risk_bins, risk_labels)

(***************************************************************************)
(* process_agent_data                                                      *)
(***************************************************************************)
MIN_TOTAL_QUOTES == 50
MIN_SUBMISSIONS == 10
MIN_WEEKS_ACTIVE == 2

\* df[df['Week'] != 'Total'] and df[df['Week'] == 'Total']
individual_rows(d) == { r \in d : r.Week # TotalLabel }
total_data(d) == { r \in d : r.Week = TotalLabel }

\* the quote threshold taken as a strict bound
qualified_agents_strict(d) ==
    { r \in total_data(d) :
        r.Quotes1 > MIN_TOTAL_QUOTES /\ r.Submitted >= MIN_SUBMISSIONS }

qualified_agents(d) ==
    { r \in total_data(d) :
        r.Quotes1 >= MIN_TOTAL_QUOTES /\ r.Submitted >= MIN_SUBMISSIONS }

\* rows.groupby('Agent')['Week'].nunique(): its index and its values
grouped_agents(rows) == { r.Agent : r \in rows }
nunique_weeks(rows, a) ==
    Cardinality({ r.Week : r \in { x \in rows : x.Agent = a } })

\* the condition on the active weeks forgotten
experienced_rows_any_weeks(d) == qualified_agents(d)

experienced_rows(d) ==
    LET ind == individual_rows(d)
    IN  { r \in qualified_agents(d) :
            r.Agent \in { a \in grouped_agents(ind) :
                            nunique_weeks(ind, a) >= MIN_WEEKS_ACTIVE } }

\* lines 168-177 with the value of MIN_SUBMISSIONS (line 160) as a
\* parameter, the other two thresholds as in the source
qualified_agents_below(d, min_submissions) ==
    { r \in total_data(d) :
        r.Quotes1 >= MIN_TOTAL_QUOTES /\ r.Submitted <= min_submissions }

qualified_agents_at(d, min_submissions) ==
    { r \in total_data(d) :
        r.Quotes1 >= MIN_TOTAL_QUOTES /\ r.Submitted >= min_submissions }

experienced_names_at(d, min_submissions) ==
    LET ind == individual_rows(d)
    IN  { r.Agent : r \in
            { q \in qualified_agents_at(d, min_submissions) :
                q.Agent \in { a \in grouped_agents(ind) :
                    nunique_weeks(ind, a) >= MIN_WEEKS_ACTIVE } } }

\* the guard giving 100 instead of 0
guarded_rate_100(num, den) ==
    IF den > 0 THEN Q(num * 100, den) ELSE QInt(100)

\* np.where(den > 0, num / den * 100, 0)
guarded_rate(num, den) ==
    IF den > 0 THEN Q(num * 100, den) ELSE QInt(0)

\* the weighted sum divided by 2 instead of by the sum of the weights
Quality_Score_halved(preferred, standard) ==
    ScaleQ(AddQ(ScaleQ(preferred, 3, 2), standard), 1, 2)

\* (Preferred % * 1.5 + Standard % * 1.0) / 2.5
Quality_Score(preferred, standard) ==
    ScaleQ(AddQ(ScaleQ(preferred, 3, 2), standard), 2, 5)

\* the derived columns process_agent_data adds to one row
with_metrics(r, weeks) ==
    [Agent |-> r.Agent, Week |-> r.Week,
     Quotes1 |-> r.Quotes1, Quotes2 |-> r.Quotes2,
     Submitted |-> r.Submitted, FreeLook |-> r.FreeLook,
     Preferred |-> QInt(r.Preferred), Standard |-> QInt(r.Standard),
     Graded |-> QInt(r.Graded), GI |-> QInt(r.GI),
     Conversion_Rate |-> guarded_rate(r.Submitted, r.Quotes2),
     Quote_Progression_Rate |-> guarded_rate(r.Quotes2, r.Quotes1),
     Overall_Conversion_Rate |-> guarded_rate(r.Submitted, r.Quotes1),
     Free_Look_Rate |-> guarded_rate(r.FreeLook, r.Submitted),
     Quality_Score |-> Quality_Score(QInt(r.Preferred), QInt(r.Standard)),
     Weeks_Active |-> weeks,
     Avg_Weekly_Submissions |-> Q(r.Submitted, weeks),
     Quality_Tier |-> Quality_Tier(QInt(r.Preferred)),
     Risk_Profile |-> Risk_Profile(QInt(r.GI))]

process_agent_data(d) ==
    LET ind == individual_rows(d)
    IN  [experienced_agents |->
            { with_metrics(r, nunique_weeks(ind, r.Agent)) :
                r \in experienced_rows(d) },
         individual_data |-> ind]

(***************************************************************************)
(* calculate_risk_score: the rules run in the order of the code, each on   *)
(* the score and issue list left by the rules before it.  An issue keeps   *)
(* the text of its message and the value printed in it.                    *)
(***************************************************************************)
add_issue(acc, delta, text, value) ==
    [risk_score |-> acc.risk_score + delta,
     issues |-> Append(acc.issues, [text |-> text, value |-> value])]

low_conversion(row, acc) ==
    IF Lt(row.Conversion_Rate, QInt(20))
    THEN add_issue(acc, 3, "Low conversion rate", row.Conversion_Rate)
    ELSE acc

\* the lower band taken as closed at 10
free_look_from_10(row, acc) ==
    IF Gt(row.Free_Look_Rate, QInt(15))
    THEN add_issue(acc, 3, "High free look rate", row.Free_Look_Rate)
    ELSE IF Ge(row.Free_Look_Rate, QInt(10))
    THEN add_issue(acc, 1, "Elevated free look rate", row.Free_Look_Rate)
    ELSE acc

\* the second band tested with if instead of elif
free_look_both_bands(row, acc) ==
    LET high == IF Gt(row.Free_Look_Rate, QInt(15))
                THEN add_issue(acc, 3, "High free look rate",
                               row.Free_Look_Rate)
                ELSE acc
    IN  IF Gt(row.Free_Look_Rate, QInt(10))
        THEN add_issue(high, 1, "Elevated free look rate",
                       row.Free_Look_Rate)
        ELSE high

free_look(row, acc) ==
    IF Gt(row.Free_Look_Rate, QInt(15))
    THEN add_issue(acc, 3, "High free look rate", row.Free_Look_Rate)
    ELSE IF Gt(row.Free_Look_Rate, QInt(10))
    THEN add_issue(acc, 1, "Elevated free look rate", row.Free_Look_Rate)
    ELSE acc

\* the GI rule chained to the free-look rules by elif: skipped once a
\* free-look rule has fired
high_gi_chained(row, acc) ==
    IF \E i \in 1..Len(acc.issues) :
         acc.issues[i].text \in {"High free look rate",
                                 "Elevated free look rate"}
    THEN acc
    ELSE IF Gt(row.GI, QInt(40))
    THEN add_issue(acc, 2, "High GI percentage", row.GI)
    ELSE acc

\* the GI threshold taken as an inclusive bound
high_gi_inclusive(row, acc) ==
    IF Ge(row.GI, QInt(40))
    THEN add_issue(acc, 2, "High GI percentage", row.GI)
    ELSE acc

high_gi(row, acc) ==
    IF Gt(row.GI, QInt(40))
    THEN add_issue(acc, 2, "High GI percentage", row.GI)
    ELSE acc

low_preferred(row, acc) ==
    IF Lt(row.Preferred, QInt(20))
    THEN add_issue(acc, 2, "Low preferred rate", row.Preferred)
    ELSE acc

high_risk_mix(row, acc) ==
    LET high_risk_percent == AddQ(row.GI, row.Graded)
    IN  IF Gt(high_risk_percent, QInt(60))
        THEN add_issue(acc, 2, "High-risk underwriting mix", high_risk_percent)
        ELSE acc

\* the productivity rule weighted like the conversion rule
low_productivity_weight_3(row, acc) ==
    IF Lt(row.Avg_Weekly_Submissions, QInt(5))
    THEN add_issue(acc, 3, "Low weekly productivity",
                   row.Avg_Weekly_Submissions)
    ELSE acc

low_productivity(row, acc) ==
    IF Lt(row.Avg_Weekly_Submissions, QInt(5))
    THEN add_issue(acc, 1, "Low weekly productivity",
                   row.Avg_Weekly_Submissions)
    ELSE acc

poor_quality(row, acc) ==
    IF Lt(row.Quality_Score, QInt(50))
    THEN add_issue(acc, 2, "Poor quality score", row.Quality_Score)
    ELSE acc

\* the High threshold taken as a strict bound
risk_level_strict(risk_score) ==
    IF risk_score > 6 THEN "High"
    ELSE IF risk_score >= 4 THEN "Medium"
    ELSE "Low"

risk_level(risk_score) ==
    IF risk_score >= 6 THEN "High"
    ELSE IF risk_score >= 4 THEN "Medium"
    ELSE "Low"

\* the seven rule blocks of lines 247-284, by name
RuleBlocks ==
    {"low_conversion", "free_look", "high_gi", "low_preferred",
     "high_risk_mix", "low_productivity", "poor_quality"}

apply_rule(block, row, acc) ==
    CASE block = "low_conversion" -> low_conversion(row, acc)
      [] block = "free_look" -> free_look(row, acc)
      [] block = "high_gi" -> high_gi(row, acc)
      [] block = "low_preferred" -> low_preferred(row, acc)
      [] block = "high_risk_mix" -> high_risk_mix(row, acc)
      [] block = "low_productivity" -> low_productivity(row, acc)
      [] block = "poor_quality" -> poor_quality(row, acc)

calculate_risk_score(row) ==
    LET s0 == [risk_score |-> 0, issues |-> <<>>]
        s1 == low_conversion(row, s0)
        s2 == free_look(row, s1)
        s3 == high_gi(row, s2)
        s4 == low_preferred(row, s3)
        s5 == high_risk_mix(row, s4)
        s6 == low_productivity(row, s5)
        s7 == poor_quality(row, s6)
    IN  [risk_score |-> s7.risk_score,
         risk_level |-> risk_level(s7.risk_score),
         issues |-> s7.issues]

(***************************************************************************)
(* main(): the sidebar (filters, date range, re-aggregation of a week      *)
(* sub-range), the dashboard header and the risk tab.                      *)
(***************************************************************************)
None == "None"
DateRangeOptions == {"All Weeks", "Last 4 Weeks", "Last 8 Weeks", "Custom Range"}

\* re.search(r'(\d+)', week): the first number in the label
extract_week_number(week) ==
    CASE week = "W1" -> 1
      [] week = "W2" -> 2
      [] week = "W3" -> 3
      [] week = "W4" -> 4
      [] OTHER -> 0

RECURSIVE sort_weeks_chronologically(_)
sort_weeks_chronologically(weeks) ==
    IF weeks = {} THEN <<>>
    ELSE LET first == CHOOSE w \in weeks :
                        \A v \in weeks :
                          extract_week_number(w) <= extract_week_number(v)
         IN  <<first>> \o sort_weeks_chronologically(weeks \ {first})

available_weeks(ind) == sort_weeks_chronologically({ r.Week : r \in ind })

\* list.index(x)
index_of(seq, x) == CHOOSE i \in 1..Len(seq) : seq[i] = x
\* the last n elements of seq, as a set
last_n(seq, n) == { seq[i] : i \in (Len(seq) - n + 1)..Len(seq) }

\* lines 394-417: the rows of individual_data kept by the date range
filter_individual_data(ind, option, start, end) ==
    LET weeks == available_weeks(ind)
    IN  IF option = "Last 4 Weeks" /\ Len(weeks) >= 4
        THEN { r \in ind : r.Week \in last_n(weeks, 4) }
        ELSE IF option = "Last 8 Weeks" /\ Len(weeks) >= 8
        THEN { r \in ind : r.Week \in last_n(weeks, 8) }
        ELSE IF option = "Custom Range" /\ start # None /\ end # None
                /\ index_of(weeks, start) <= index_of(weeks, end)
        THEN { r \in ind :
                 r.Week \in { weeks[i] :
                     i \in index_of(weeks, start)..index_of(weeks, end) } }
        ELSE ind

\* the plain mean of the weekly percentages, the weights forgotten
weighted_average_plain(rows, col) ==
    Q(SumOver(rows, [r \in rows |-> r[col]]), Cardinality(rows))

\* np.average(x, weights=submitted) if submitted.sum() > 0 else 0
weighted_average(rows, col) ==
    LET total == SumOver(rows, [r \in rows |-> r.Submitted])
    IN  IF total > 0
        THEN Q(SumOver(rows, [r \in rows |-> r[col] * r.Submitted]), total)
        ELSE QInt(0)

\* lines 422-463: one row of agent_totals
aggregate_agent(fid, a) ==
    LET rows == { r \in fid : r.Agent = a }
        q1 == SumOver(rows, [r \in rows |-> r.Quotes1])
        q2 == SumOver(rows, [r \in rows |-> r.Quotes2])
        sub == SumOver(rows, [r \in rows |-> r.Submitted])
        fl == SumOver(rows, [r \in rows |-> r.FreeLook])
        preferred == weighted_average(rows, "Preferred")
        standard == weighted_average(rows, "Standard")
        weeks == nunique_weeks(fid, a)
    IN  [Agent |-> a,
         Quotes1 |-> q1, Quotes2 |-> q2, Submitted |-> sub, FreeLook |-> fl,
         Preferred |-> preferred, Standard |-> standard,
         Graded |-> weighted_average(rows, "Graded"),
         GI |-> weighted_average(rows, "GI"),
         Conversion_Rate |-> guarded_rate(sub, q2),
         Free_Look_Rate |-> guarded_rate(fl, sub),
         Quality_Score |-> Quality_Score(preferred, standard),
         Weeks_Active |-> weeks,
         Avg_Weekly_Submissions |-> Q(sub, weeks),
         Quality_Tier |-> Quality_Tier(preferred)]

reaggregate(fid) == { aggregate_agent(fid, a) : a \in grouped_agents(fid) }

\* max(5, 10 * len(filtered weeks) // len(available_weeks))
MIN_SUBMISSIONS_FILTERED(fid, ind) ==
    LET scaled == (10 * Cardinality({ r.Week : r \in fid }))
                    \div Len(available_weeks(ind))
    IN  IF scaled > 5 THEN scaled ELSE 5

\* lines 468-471
requalify(totals, fid, ind) ==
    { t \in totals :
        t.Submitted >= MIN_SUBMISSIONS_FILTERED(fid, ind)
        /\ t.Weeks_Active >= 1 }

\* the tier filter alone, the agent filter forgotten
apply_filters_tiers_only(fea, agents, tiers) ==
    { r \in fea : r.Quality_Tier \in tiers }

\* lines 478-481
apply_filters(fea, agents, tiers) ==
    { r \in fea : r.Agent \in agents /\ r.Quality_Tier \in tiers }

(***************************************************************************)
(* The session: upload, process_agent_data, one run of the sidebar with    *)
(* the widget values of that run, the dashboard header, the risk tab.      *)
(***************************************************************************)
Init ==
    /\ pc = "upload"
    /\ df \in TablesUpTo(MaxRows)
    /\ experienced_agents = {}
    /\ individual_data = {}
    /\ date_range_option = None
    /\ start_week = None
    /\ end_week = None
    /\ selected_agents = {}
    /\ selected_tiers = {}
    /\ filtered_individual_data = {}
    /\ agent_totals = {}
    /\ filtered_experienced_agents = {}
    /\ filtered_agents = {}
    /\ risk_data = {}
    /\ agent_row = None
    /\ risk_result = None
    /\ pct_value = None
    /\ cut_result = None
    /\ pending_rules = {}
    /\ df_columns = AllColumns

\* the columns process_agent_data indexes: df['Week'], total_data[...] at
\* lines 169-170, experienced_agents[...] at lines 180-234
ReadColumns ==
    {"Agent", "Week", "Quotes1", "Quotes2", "Submitted", "FreeLook",
     "Preferred", "Standard", "GI"}

\* the KeyError swallowed: the session goes on with an empty agent table
ProcessAgentData_swallowed ==
    /\ pc = "upload"
    /\ IF ReadColumns \subseteq df_columns
       THEN LET out == process_agent_data(df)
            IN  /\ experienced_agents' = out.experienced_agents
                /\ individual_data' = out.individual_data
       ELSE /\ experienced_agents' = {}
            /\ individual_data' = {}
    /\ pc' = "sidebar"
    /\ UNCHANGED <<df_columns, pending_rules, df, date_range_option,
                   start_week, end_week,
                   selected_agents, selected_tiers, filtered_individual_data,
                   agent_totals, filtered_experienced_agents, filtered_agents,
                   risk_data, agent_row, risk_result, pct_value, cut_result>>

\* line 352; a column of ReadColumns missing from the upload is a KeyError
\* inside process_agent_data, caught at line 483
ProcessAgentData ==
    /\ pc = "upload"
    /\ IF ReadColumns \subseteq df_columns
       THEN LET out == process_agent_data(df)
            IN  /\ experienced_agents' = out.experienced_agents
                /\ individual_data' = out.individual_data
                /\ pc' = "sidebar"
       ELSE /\ experienced_agents' = {}
            /\ individual_data' = {}
            /\ pc' = "error"
    /\ UNCHANGED <<df_columns, pending_rules, df, date_range_option,
                   start_week, end_week,
                   selected_agents, selected_tiers, filtered_individual_data,
                   agent_totals, filtered_experienced_agents, filtered_agents,
                   risk_data, agent_row, risk_result, pct_value, cut_result>>

\* lines 356-481 with the widget values of this run
Sidebar(option, agents, tiers, start, end) ==
    /\ pc = "sidebar"
    /\ date_range_option' = option
    /\ selected_agents' = agents
    /\ selected_tiers' = tiers
    /\ start_week' = start
    /\ end_week' = end
    /\ LET fid == filter_individual_data(individual_data, option, start, end)
           totals == reaggregate(fid)
       IN  IF option = "All Weeks"
           THEN /\ filtered_individual_data' = fid
                /\ agent_totals' = {}
                /\ filtered_experienced_agents' = experienced_agents
                /\ filtered_agents' =
                      apply_filters(experienced_agents, agents, tiers)
                /\ pc' = "dashboard"
           ELSE IF Len(available_weeks(individual_data)) = 0
           THEN \* ZeroDivisionError at line 466, caught at line 483
                /\ filtered_individual_data' = fid
                /\ agent_totals' = totals
                /\ filtered_experienced_agents' = {}
                /\ filtered_agents' = {}
                /\ pc' = "error"
           ELSE /\ filtered_individual_data' = fid
                /\ agent_totals' = totals
                /\ filtered_experienced_agents' =
                      requalify(totals, fid, individual_data)
                /\ filtered_agents' =
                      apply_filters(requalify(totals, fid, individual_data),
                                    agents, tiers)
                /\ pc' = "dashboard"
    /\ UNCHANGED <<df_columns, pending_rules, df, experienced_agents, individual_data, risk_data,
                   agent_row, risk_result, pct_value, cut_result>>

\* the values the widgets of lines 356-410 can hold
SidebarRun ==
    \E option \in DateRangeOptions :
    \E agents \in SUBSET { r.Agent : r \in experienced_agents } :
    \E tiers \in SUBSET { r.Quality_Tier : r \in experienced_agents } :
      LET weeks == { r.Week : r \in individual_data }
          choices == IF option = "Custom Range" /\ weeks # {}
                     THEN weeks ELSE {None}
      IN  \E start \in choices : \E end \in choices :
            Sidebar(option, agents, tiers, start, end)

\* lines 496-600: the header reads filtered_agents[filtered_agents.get(
\* 'Risk_Profile', '') == 'High Risk'], a KeyError on a table that has no
\* Risk_Profile column
KeyMetrics ==
    /\ pc = "dashboard"
    /\ filtered_agents # {}
    /\ pc' = IF \A r \in filtered_agents : "Risk_Profile" \in DOMAIN r
             THEN "tabs" ELSE "exception"
    /\ UNCHANGED <<df_columns, pending_rules, df, experienced_agents, individual_data,
                   date_range_option, start_week, end_week, selected_agents,
                   selected_tiers, filtered_individual_data, agent_totals,
                   filtered_experienced_agents, filtered_agents, risk_data,
                   agent_row, risk_result, pct_value, cut_result>>

\* lines 906-917
RiskAnalysis ==
    /\ pc = "tabs"
    /\ risk_data' =
          { LET res == calculate_risk_score(agent)
            IN  [Agent |-> agent.Agent,
                 Risk_Score |-> res.risk_score,
                 Risk_Level |-> res.risk_level,
                 Issues |-> res.issues,
                 Weeks_Active |-> agent.Weeks_Active,
                 Submissions |-> agent.Submitted] : agent \in filtered_agents }
    /\ pc' = "done"
    /\ UNCHANGED <<df_columns, pending_rules, df, experienced_agents, individual_data,
                   date_range_option, start_week, end_week, selected_agents,
                   selected_tiers, filtered_individual_data, agent_totals,
                   filtered_experienced_agents, filtered_agents,
                   agent_row, risk_result, pct_value, cut_result>>

Next == ProcessAgentData \/ SidebarRun \/ KeyMetrics \/ RiskAnalysis

Spec == Init /\ [][Next]_vars

(***************************************************************************)
(* calculate_risk_score on its own: one agent record whose seven fields    *)
(* lie within RiskSpread of the thresholds of the rules.                   *)
(***************************************************************************)
Around(t) == { QInt(v) : v \in (t - RiskSpread)..(t + RiskSpread) }

RiskRows ==
    [Conversion_Rate : Around(20),
     Free_Look_Rate : Around(10) \cup Around(15),
     GI : Around(40),
     Preferred : Around(20),
     Graded : Around(20),
     Avg_Weekly_Submissions : Around(5),
     Quality_Score : Around(50)]

InitRisk ==
    /\ pc = "row"
    /\ agent_row \in RiskRows
    /\ risk_result = None
    /\ df = {}
    /\ experienced_agents = {}
    /\ individual_data = {}
    /\ date_range_option = None
    /\ start_week = None
    /\ end_week = None
    /\ selected_agents = {}
    /\ selected_tiers = {}
    /\ filtered_individual_data = {}
    /\ agent_totals = {}
    /\ filtered_experienced_agents = {}
    /\ filtered_agents = {}
    /\ risk_data = {}
    /\ pct_value = None
    /\ cut_result = None
    /\ pending_rules = {}
    /\ df_columns = AllColumns

\* line 909
CalculateRiskScore ==
    /\ pc = "row"
    /\ risk_result' = calculate_risk_score(agent_row)
    /\ pc' = "scored"
    /\ UNCHANGED <<df_columns, pending_rules, df, experienced_agents, individual_data,
                   date_range_option, start_week, end_week, selected_agents,
                   selected_tiers, filtered_individual_data, agent_totals,
                   filtered_experienced_agents, filtered_agents, risk_data,
                   agent_row, pct_value, cut_result>>

NextRisk == CalculateRiskScore

SpecRisk == InitRisk /\ [][NextRisk]_vars

(***************************************************************************)
(* The two classifications on their own: one percentage, every half of an  *)
(* integer from -Margin to 100 + Margin.                                   *)
(***************************************************************************)
PctValues == { Q(v, 2) : v \in (0 - 2 * Margin)..(200 + 2 * Margin) }

InitTier ==
    /\ pc = "pct"
    /\ pct_value \in PctValues
    /\ cut_result = None
    /\ pending_rules = {}
    /\ df_columns = AllColumns
    /\ agent_row = None
    /\ risk_result = None
    /\ df = {}
    /\ experienced_agents = {}
    /\ individual_data = {}
    /\ date_range_option = None
    /\ start_week = None
    /\ end_week = None
    /\ selected_agents = {}
    /\ selected_tiers = {}
    /\ filtered_individual_data = {}
    /\ agent_totals = {}
    /\ filtered_experienced_agents = {}
    /\ filtered_agents = {}
    /\ risk_data = {}

\* lines 216-234 on one value of 'Preferred %' and of 'GI %'
Classify ==
    /\ pc = "pct"
    /\ cut_result' = [Quality_Tier |-> Quality_Tier(pct_value),
                      Risk_Profile |-> Risk_Profile(pct_value)]
    /\ pc' = "cut"
    /\ UNCHANGED <<df_columns, pending_rules, df, experienced_agents, individual_data,
                   date_range_option, start_week, end_week, selected_agents,
                   selected_tiers, filtered_individual_data, agent_totals,
                   filtered_experienced_agents, filtered_agents, risk_data,
                   agent_row, risk_result, pct_value>>

NextTier == Classify

SpecTier == InitTier /\ [][NextTier]_vars

(***************************************************************************)
(* Properties.                                                             *)
(***************************************************************************)
\* the record e of an agent table was made from the row r of the upload
FromRow(e, r) ==
    /\ e.Agent = r.Agent
    /\ "Week" \in DOMAIN e /\ e.Week = r.Week
    /\ e.Quotes1 = r.Quotes1 /\ e.Quotes2 = r.Quotes2
    /\ e.Submitted = r.Submitted /\ e.FreeLook = r.FreeLook
    /\ e.Preferred = QInt(r.Preferred) /\ e.Standard = QInt(r.Standard)
    /\ e.Graded = QInt(r.Graded) /\ e.GI = QInt(r.GI)

\* the number of distinct week labels on the non-Total rows of agent a
ActiveWeeks(a) ==
    Cardinality({ x.Week : x \in { y \in df : y.Agent = a /\ y.Week # "Total" } })

\* the row r passes the full-period qualification
RowQualifies(r) ==
    /\ r.Week = "Total"
    /\ r.Quotes1 >= 50
    /\ r.Submitted >= 10
    /\ ActiveWeeks(r.Agent) >= 2

\* agent a has a Total row that passes the full-period qualification
AgentQualifies(a) == \E r \in df : r.Agent = a /\ RowQualifies(r)

\* C1: once process_agent_data has run, a Total row of the upload is in the
\* full-period table if and only if it has first-stage quotes >= 50 and
\* submitted >= 10 and its agent has at least 2 distinct week labels among
\* its non-Total rows (none at all counts as zero); the table holds no
\* other record.
C1_QualificationIff ==
    pc \in {"sidebar", "dashboard", "error", "tabs", "exception", "done"} =>
      /\ \A r \in df :
           r.Week = "Total" =>
             ((\E e \in experienced_agents : FromRow(e, r)) <=> RowQualifies(r))
      /\ \A e \in experienced_agents :
           \E r \in df : r.Week = "Total" /\ FromRow(e, r)

\* C1 witness: one Total row is in the table, and another Total row that
\* passes both count thresholds is left out because its agent has no
\* non-Total row.
C1_Witness ==
    /\ pc = "sidebar"
    /\ experienced_agents # {}
    /\ \E r \in df :
         /\ r.Week = "Total" /\ r.Quotes1 >= 50 /\ r.Submitted >= 10
         /\ ActiveWeeks(r.Agent) = 0
         /\ ~ \E e \in experienced_agents : FromRow(e, r)

RuleTexts ==
    {"Low conversion rate", "High free look rate", "Elevated free look rate",
     "High GI percentage", "Low preferred rate", "High-risk underwriting mix",
     "Low weekly productivity", "Poor quality score"}

RuleDelta(text) ==
    CASE text = "Low conversion rate" -> 3
      [] text = "High free look rate" -> 3
      [] text = "Elevated free look rate" -> 1
      [] text = "High GI percentage" -> 2
      [] text = "Low preferred rate" -> 2
      [] text = "High-risk underwriting mix" -> 2
      [] text = "Low weekly productivity" -> 1
      [] text = "Poor quality score" -> 2

RuleHolds(text, row) ==
    CASE text = "Low conversion rate" -> Lt(row.Conversion_Rate, QInt(20))
      [] text = "High free look rate" -> Gt(row.Free_Look_Rate, QInt(15))
      [] text = "Elevated free look rate" ->
            Gt(row.Free_Look_Rate, QInt(10)) /\ Le(row.Free_Look_Rate, QInt(15))
      [] text = "High GI percentage" -> Gt(row.GI, QInt(40))
      [] text = "Low preferred rate" -> Lt(row.Preferred, QInt(20))
      [] text = "High-risk underwriting mix" ->
            Gt(AddQ(row.GI, row.Graded), QInt(60))
      [] text = "Low weekly productivity" ->
            Lt(row.Avg_Weekly_Submissions, QInt(5))
      [] text = "Poor quality score" -> Lt(row.Quality_Score, QInt(50))

FiringRules(row) == { t \in RuleTexts : RuleHolds(t, row) }
DeltaSum(texts) == SumOver(texts, [t \in texts |-> RuleDelta(t)])
IssueTexts(res) == { res.issues[i].text : i \in 1..Len(res.issues) }

\* C3: the score returned for a record is the sum of the deltas of exactly
\* the rules whose condition holds on it, and the issue list holds one
\* message for each of these rules and no other message.
C3_ScoreIsSumOfFiringRules ==
    pc = "scored" =>
      /\ risk_result.risk_score = DeltaSum(FiringRules(agent_row))
      /\ IssueTexts(risk_result) = FiringRules(agent_row)
      /\ Len(risk_result.issues) = Cardinality(FiringRules(agent_row))

\* C3 witness: a scored record on which the GI rule does not fire at its
\* threshold value 40 while three other rules fire together.
C3_Witness ==
    /\ pc = "scored"
    /\ agent_row.GI = QInt(40)
    /\ IssueTexts(risk_result) =
         {"Low conversion rate", "High free look rate", "Poor quality score"}
    /\ risk_result.risk_score = 8

\* C4: the level is High exactly when the score is >= 6, Medium exactly
\* when 4 <= score < 6, Low exactly when score < 4, and it is one of the
\* three.
C4_LevelFromScore ==
    pc = "scored" =>
      /\ risk_result.risk_level \in {"High", "Medium", "Low"}
      /\ risk_result.risk_level = "High" <=> risk_result.risk_score >= 6
      /\ risk_result.risk_level = "Medium" <=>
           (4 <= risk_result.risk_score /\ risk_result.risk_score < 6)
      /\ risk_result.risk_level = "Low" <=> risk_result.risk_score < 4

\* C4 witness: a record scored exactly 6, the lowest High score.
C4_Witness ==
    /\ pc = "scored"
    /\ risk_result.risk_score = 6
    /\ risk_result.risk_level = "High"

\* the part of the score that comes from the two free-look rules
FreeLookContribution ==
    risk_result.risk_score
      - DeltaSum(FiringRules(agent_row)
                   \ {"High free look rate", "Elevated free look rate"})

\* C5: the issue list never holds both free-look messages, and the
\* free-look rules add 3 when free_look_rate > 15, 1 when
\* 10 < free_look_rate <= 15 and 0 when free_look_rate <= 10.
C5_FreeLookBandsExclusive ==
    pc = "scored" =>
      /\ ~ ({"High free look rate", "Elevated free look rate"}
              \subseteq IssueTexts(risk_result))
      /\ FreeLookContribution =
           IF Gt(agent_row.Free_Look_Rate, QInt(15)) THEN 3
           ELSE IF Gt(agent_row.Free_Look_Rate, QInt(10)) THEN 1
           ELSE 0

\* C5 witness: a record with free_look_rate exactly 15 gets the Elevated
\* message alone, worth 1.
C5_Witness ==
    /\ pc = "scored"
    /\ agent_row.Free_Look_Rate = QInt(15)
    /\ "Elevated free look rate" \in IssueTexts(risk_result)
    /\ "High free look rate" \notin IssueTexts(risk_result)
    /\ FreeLookContribution = 1

\* the qualifying records: the full-period table and, once the sidebar has
\* run, the table it leaves (the re-aggregated one under a date range)
AgentRecords == experienced_agents \cup filtered_experienced_agents

\* the record r carries the rate named col and its value is 0 when den is
\* 0 and num / den * 100 otherwise
RateAsDefined(r, col, num, den) ==
    /\ col \in DOMAIN r
    /\ IF den = 0
       THEN r[col][1] = 0
       ELSE r[col][1] * den = num * 100 * r[col][2]

\* C6: every agent record, of the full-period table and of the
\* re-aggregated sub-range table, has conversion_rate, quote_progression_rate,
\* overall_conversion_rate and free_look_rate equal to 0 when the
\* denominator is 0 and to numerator / denominator * 100 otherwise.
C6_RatesGuarded ==
    \A r \in AgentRecords :
      /\ RateAsDefined(r, "Conversion_Rate", r.Submitted, r.Quotes2)
      /\ RateAsDefined(r, "Quote_Progression_Rate", r.Quotes2, r.Quotes1)
      /\ RateAsDefined(r, "Overall_Conversion_Rate", r.Submitted, r.Quotes1)
      /\ RateAsDefined(r, "Free_Look_Rate", r.FreeLook, r.Submitted)

\* the rates a record carries
RateColumns(r) ==
    DOMAIN r \cap {"Conversion_Rate", "Quote_Progression_Rate",
                   "Overall_Conversion_Rate", "Free_Look_Rate"}

\* C7: every derived rate of every agent record the pipeline produces is
\* >= 0, negative cells in the upload included.
C7_RatesNonNegative ==
    \A r \in AgentRecords :
      \A col \in RateColumns(r) : Ge(r[col], QInt(0))

\* the labels of bins closed on the left: [0,20) [20,30) [30,40) [40,100]
LeftInclusiveQuality(x) ==
    IF Lt(x, QInt(20)) THEN "Poor"
    ELSE IF Lt(x, QInt(30)) THEN "Average"
    ELSE IF Lt(x, QInt(40)) THEN "Good"
    ELSE "Excellent"

\* [0,20) [20,35) [35,100]
LeftInclusiveRisk(x) ==
    IF Lt(x, QInt(20)) THEN "Low Risk"
    ELSE IF Lt(x, QInt(35)) THEN "Medium Risk"
    ELSE "High Risk"

InRange(x) == Ge(x, QInt(0)) /\ Le(x, QInt(100))

\* C8: a percentage in [0,100] gets the label of the bin, closed on the
\* left, that holds it: preferred [0,20) Poor, [20,30) Average, [30,40)
\* Good, [40,100] Excellent; GI [0,20) Low Risk, [20,35) Medium Risk,
\* [35,100] High Risk.
C8_BinsLeftInclusive ==
    (pc = "cut" /\ InRange(pct_value)) =>
      /\ cut_result.Quality_Tier = LeftInclusiveQuality(pct_value)
      /\ cut_result.Risk_Profile = LeftInclusiveRisk(pct_value)

\* C9: every percentage in [0,100], 0 and 100 included, gets one label in
\* each classification; none is left without a label.
C9_BinsCoverRange ==
    (pc = "cut" /\ InRange(pct_value)) =>
      /\ cut_result.Quality_Tier \in
           {"Poor", "Average", "Good", "Excellent"}
      /\ cut_result.Risk_Profile \in
           {"Low Risk", "Medium Risk", "High Risk"}

\* C10: a percentage below 0 or above 100 never ends as a missing quality
\* tier or risk profile (the code has no path that rejects the value, so
\* it would have to be given a label).
C10_OutOfRangeLabelled ==
    (pc = "cut" /\ ~ InRange(pct_value)) =>
      /\ cut_result.Quality_Tier # NaN
      /\ cut_result.Risk_Profile # NaN

(***************************************************************************)
(* The session on the table of one agent: one Total row and a weekly row   *)
(* in any of four weeks.                                                   *)
(***************************************************************************)
FourWeeks == {"W1", "W2", "W3", "W4"}

AgentTables ==
    { {Row("a1", TotalLabel, c)} \cup { Row("a1", w, wc[w]) : w \in ws } :
        c \in TotalCells, ws \in SUBSET FourWeeks,
        wc \in [FourWeeks -> WeekCells] }

InitAgent ==
    /\ pc = "upload"
    /\ df \in AgentTables
    /\ experienced_agents = {}
    /\ individual_data = {}
    /\ date_range_option = None
    /\ start_week = None
    /\ end_week = None
    /\ selected_agents = {}
    /\ selected_tiers = {}
    /\ filtered_individual_data = {}
    /\ agent_totals = {}
    /\ filtered_experienced_agents = {}
    /\ filtered_agents = {}
    /\ risk_data = {}
    /\ agent_row = None
    /\ risk_result = None
    /\ pct_value = None
    /\ cut_result = None
    /\ pending_rules = {}
    /\ df_columns = AllColumns

SpecAgent == InitAgent /\ [][Next]_vars

\* the record e has the counts and percentages of the worked example of
\* the spec and 4 active weeks
IsWorkedExample(e) ==
    /\ e.Quotes1 = 100 /\ e.Quotes2 = 50 /\ e.Submitted = 30
    /\ e.FreeLook = 3
    /\ e.Preferred = QInt(50) /\ e.Standard = QInt(20)
    /\ e.GI = QInt(10) /\ e.Graded = QInt(5)
    /\ e.Weeks_Active = 4

\* C11: for the worked example the full-period record has
\* conversion_rate 60, quote_progression_rate 50, free_look_rate 10,
\* quality_score 38 and avg_weekly_submissions 7.5.
C11_WorkedExampleMetrics ==
    \A e \in experienced_agents :
      IsWorkedExample(e) =>
        /\ EqQ(e.Conversion_Rate, QInt(60))
        /\ EqQ(e.Quote_Progression_Rate, QInt(50))
        /\ EqQ(e.Free_Look_Rate, QInt(10))
        /\ EqQ(e.Quality_Score, QInt(38))
        /\ EqQ(e.Avg_Weekly_Submissions, Q(15, 2))

\* C11 witness: process_agent_data has produced the record of the worked
\* example.
C11_Witness ==
    /\ pc = "sidebar"
    /\ \E e \in experienced_agents : IsWorkedExample(e)

\* the record e has the percentages of the worked example that the tier
\* classifier reads
HasExampleMix(e) == e.Preferred = QInt(50) /\ e.GI = QInt(10)

\* C12 as claimed: for the worked example (preferred 50, GI 10) the
\* quality tier is Good and the risk profile is Low Risk.
C12_ExampleTierGood ==
    \A e \in experienced_agents :
      HasExampleMix(e) =>
        e.Quality_Tier = "Good" /\ e.Risk_Profile = "Low Risk"

\* C12 amended: for the worked example (preferred 50, GI 10) the quality
\* tier is Excellent, 50 lying in the bin from 40 to 100, and the risk
\* profile is Low Risk.
C12_ExampleTierExcellent ==
    \A e \in experienced_agents :
      HasExampleMix(e) =>
        e.Quality_Tier = "Excellent" /\ e.Risk_Profile = "Low Risk"

\* C12 witness: the full-period table holds a record classified from
\* preferred 50 and GI 10.
C12_Witness ==
    /\ pc = "sidebar"
    /\ \E e \in experienced_agents : HasExampleMix(e)

\* the risk assessments made from a record of the worked example
ExampleAssessments ==
    { x \in risk_data :
        \E agent \in filtered_agents :
          IsWorkedExample(agent) /\ agent.Agent = x.Agent }

\* the message texts of a row of risk_data
AssessmentTexts(x) == { x.Issues[i].text : i \in 1..Len(x.Issues) }

\* C13 as claimed: the worked example is scored 3, level Low, +1 from the
\* elevated free-look rule and +2 from the poor quality-score rule.
C13_ExampleScoreThree ==
    \A x \in ExampleAssessments :
      /\ x.Risk_Score = 3
      /\ x.Risk_Level = "Low"
      /\ AssessmentTexts(x) = {"Elevated free look rate", "Poor quality score"}

\* C13 amended: the worked example is scored 2, level Low, the +2 of the
\* poor quality-score rule alone; its free_look_rate of exactly 10 fires
\* no free-look rule.
C13_ExampleScoreTwo ==
    \A x \in ExampleAssessments :
      /\ x.Risk_Score = 2
      /\ x.Risk_Level = "Low"
      /\ AssessmentTexts(x) = {"Poor quality score"}

\* C13 witness: the risk tab has assessed the record of the worked example.
C13_Witness ==
    /\ pc = "done"
    /\ ExampleAssessments # {}

(***************************************************************************)
(* calculate_risk_score with its seven rule blocks run in any order, on a  *)
(* record of either table: with or without the Risk_Profile column.        *)
(***************************************************************************)
SevenRows ==
    [Conversion_Rate : {QInt(19), QInt(60)},
     Free_Look_Rate : {QInt(10), QInt(12), QInt(16)},
     GI : {QInt(10), QInt(41)},
     Preferred : {QInt(19), QInt(50)},
     Graded : {QInt(5), QInt(25)},
     Avg_Weekly_Submissions : {QInt(4), Q(15, 2)},
     Quality_Score : {QInt(38), QInt(50)}]

\* a record of the full-period table also has the Risk_Profile column
\* (lines 230-234); a record of the sub-range table (lines 420-463) has not
with_risk_profile(row) ==
    [f \in DOMAIN row \cup {"Risk_Profile"} |->
        IF f = "Risk_Profile" THEN Risk_Profile(row.GI) ELSE row[f]]

OrderRows == SevenRows \cup { with_risk_profile(row) : row \in SevenRows }

InitOrder ==
    /\ pc = "rules"
    /\ agent_row \in OrderRows
    /\ risk_result = [risk_score |-> 0, issues |-> <<>>]
    /\ pending_rules = RuleBlocks
    /\ df_columns = AllColumns
    /\ df = {}
    /\ experienced_agents = {}
    /\ individual_data = {}
    /\ date_range_option = None
    /\ start_week = None
    /\ end_week = None
    /\ selected_agents = {}
    /\ selected_tiers = {}
    /\ filtered_individual_data = {}
    /\ agent_totals = {}
    /\ filtered_experienced_agents = {}
    /\ filtered_agents = {}
    /\ risk_data = {}
    /\ pct_value = None
    /\ cut_result = None

\* one of lines 247-284, taken in any order
ApplyRule ==
    /\ pc = "rules"
    /\ \E block \in pending_rules :
         /\ risk_result' = apply_rule(block, agent_row, risk_result)
         /\ pending_rules' = pending_rules \ {block}
    /\ UNCHANGED <<df_columns, pc, df, experienced_agents, individual_data,
                   date_range_option, start_week, end_week, selected_agents,
                   selected_tiers, filtered_individual_data, agent_totals,
                   filtered_experienced_agents, filtered_agents, risk_data,
                   agent_row, pct_value, cut_result>>

\* lines 286-288
ReturnScore ==
    /\ pc = "rules"
    /\ pending_rules = {}
    /\ df_columns = AllColumns
    /\ risk_result' = [risk_score |-> risk_result.risk_score,
                       risk_level |-> risk_level(risk_result.risk_score),
                       issues |-> risk_result.issues]
    /\ pc' = "returned"
    /\ UNCHANGED <<df_columns, pending_rules, df, experienced_agents, individual_data,
                   date_range_option, start_week, end_week, selected_agents,
                   selected_tiers, filtered_individual_data, agent_totals,
                   filtered_experienced_agents, filtered_agents, risk_data,
                   agent_row, pct_value, cut_result>>

NextOrder == ApplyRule \/ ReturnScore

SpecOrder == InitOrder /\ [][NextOrder]_vars

\* the seven fields calculate_risk_score reads
SevenFields(row) ==
    [Conversion_Rate |-> row.Conversion_Rate,
     Free_Look_Rate |-> row.Free_Look_Rate,
     GI |-> row.GI, Preferred |-> row.Preferred, Graded |-> row.Graded,
     Avg_Weekly_Submissions |-> row.Avg_Weekly_Submissions,
     Quality_Score |-> row.Quality_Score]

\* C14: whatever the order in which the rule blocks ran and whatever the
\* record holds besides the seven fields, the score and the level are those
\* calculate_risk_score gives on the seven fields alone, with the same
\* issue messages.
C14_OrderIndependent ==
    pc = "returned" =>
      LET ref == calculate_risk_score(SevenFields(agent_row))
      IN  /\ risk_result.risk_score = ref.risk_score
          /\ risk_result.risk_level = ref.risk_level
          /\ IssueTexts(risk_result) = IssueTexts(ref)
          /\ Len(risk_result.issues) = Len(ref.issues)

\* C14 witness: a result reached with the rule blocks in another order
\* than the source's: the issues are not in source order, yet the score is
\* the same.
C14_Witness ==
    /\ pc = "returned"
    /\ risk_result.risk_score >= 6
    /\ risk_result.issues # calculate_risk_score(agent_row).issues
    /\ "Risk_Profile" \notin DOMAIN agent_row

SubmissionThresholds == {0, 9, 10, 11, 30, 31}

\* C15: for the same upload, the agents qualified under a submission
\* threshold m2 are among those qualified under any threshold m1 <= m2;
\* at the threshold of the source the parametrised qualification is the
\* one process_agent_data made.
C15_MonotonicInMinSubmissions ==
    /\ \A m1 \in SubmissionThresholds : \A m2 \in SubmissionThresholds :
         m1 <= m2 =>
           /\ experienced_names_at(df, m2) \subseteq
                experienced_names_at(df, m1)
           /\ Cardinality(experienced_names_at(df, m2)) <=
                Cardinality(experienced_names_at(df, m1))
    /\ pc # "upload" =>
         { e.Agent : e \in experienced_agents } =
           experienced_names_at(df, MIN_SUBMISSIONS)

\* C15 witness: an upload processed whose qualified agent is lost when the
\* threshold is raised.
C15_Witness ==
    /\ pc = "sidebar"
    /\ experienced_agents # {}
    /\ \E m \in SubmissionThresholds :
         /\ m > MIN_SUBMISSIONS
         /\ experienced_names_at(df, m) = {}

\* a sidebar run that re-aggregated a week sub-range and did not fail
SubRangeActive ==
    /\ pc \in {"dashboard", "tabs", "exception", "done"}
    /\ date_range_option # "All Weeks"

weeks_in_range == Cardinality({ r.Week : r \in filtered_individual_data })
total_weeks == Len(available_weeks(individual_data))

\* C16: with a sub-range active, an agent of the re-aggregated table is
\* kept exactly when its submitted count in range is at least
\* max(5, 10 * weeks_in_range / total_weeks), the quotient exact, and it
\* has at least one active week in range.
C16_ExactProportionalThreshold ==
    SubRangeActive =>
      \A t \in agent_totals :
        t \in filtered_experienced_agents <=>
          /\ Ge(QInt(t.Submitted), Q(10 * weeks_in_range, total_weeks))
          /\ t.Submitted >= 5
          /\ t.Weeks_Active >= 1

\* the columns of a record of the full-period table, lines 179-234
FullPeriodFields ==
    {"Quotes1", "Quotes2", "Submitted", "FreeLook",
     "Preferred", "Standard", "Graded", "GI",
     "Conversion_Rate", "Quote_Progression_Rate", "Overall_Conversion_Rate",
     "Free_Look_Rate", "Quality_Score", "Weeks_Active",
     "Avg_Weekly_Submissions", "Quality_Tier", "Risk_Profile"}

\* C17: every record of the re-aggregated sub-range table has the fields
\* of a full-period record, as every full-period record has, and no
\* consumer of the table fails on a field it reads.
C17_SubRangeSameFields ==
    /\ \A e \in experienced_agents : FullPeriodFields \subseteq DOMAIN e
    /\ SubRangeActive =>
         \A t \in agent_totals : FullPeriodFields \subseteq DOMAIN t
    /\ pc # "exception"

\* a sub-range record and a full-period record of the same agent with the
\* same counts, rates, quality score, weeks_active and tier (the rates
\* both tables have)
SameMetrics(t, e) ==
    /\ t.Agent = e.Agent
    /\ t.Quotes1 = e.Quotes1 /\ t.Quotes2 = e.Quotes2
    /\ t.Submitted = e.Submitted /\ t.FreeLook = e.FreeLook
    /\ EqQ(t.Conversion_Rate, e.Conversion_Rate)
    /\ EqQ(t.Free_Look_Rate, e.Free_Look_Rate)
    /\ EqQ(t.Quality_Score, e.Quality_Score)
    /\ t.Weeks_Active = e.Weeks_Active
    /\ t.Quality_Tier = e.Quality_Tier

\* C18: when the sub-range holds every available week, the re-aggregated
\* table has the agents of the full-period table, each with the same
\* counts, rates, quality score, weeks_active and tier.
C18_WholePeriodSameAsFull ==
    (SubRangeActive /\ filtered_individual_data = individual_data) =>
      /\ \A e \in experienced_agents :
           \E t \in filtered_experienced_agents : SameMetrics(t, e)
      /\ \A t \in filtered_experienced_agents :
           \E e \in experienced_agents : SameMetrics(t, e)

(***************************************************************************)
(* The session on weekly rows of two agents, among them weeks with quotes  *)
(* and no submission, for the re-aggregation of a week sub-range.          *)
(***************************************************************************)
IdleWeek == Cells(5, 0, 0, 0, 30, 30, 20, 20)

\* the weekly rows of agent a: in each of the weeks ws, one of the cells cs
WeeklyRows(a, ws, cs) ==
    { { Row(a, w, wc[w]) : w \in present } :
        present \in SUBSET ws, wc \in [ws -> cs] }

RangeTables ==
    { total \cup rows1 \cup rows2 :
        total \in { {}, { Row("a1", TotalLabel,
                              Cells(100, 50, 30, 3, 50, 20, 5, 10)) } },
        rows1 \in WeeklyRows("a1", WeekLabels, WeekCells \cup {IdleWeek}),
        rows2 \in WeeklyRows("a2", {"W1", "W2"}, {IdleWeek}) }

InitRange ==
    /\ pc = "upload"
    /\ df \in RangeTables
    /\ experienced_agents = {}
    /\ individual_data = {}
    /\ date_range_option = None
    /\ start_week = None
    /\ end_week = None
    /\ selected_agents = {}
    /\ selected_tiers = {}
    /\ filtered_individual_data = {}
    /\ agent_totals = {}
    /\ filtered_experienced_agents = {}
    /\ filtered_agents = {}
    /\ risk_data = {}
    /\ agent_row = None
    /\ risk_result = None
    /\ pct_value = None
    /\ cut_result = None
    /\ pending_rules = {}
    /\ df_columns = AllColumns

SpecRange == InitRange /\ [][Next]_vars

PercentageColumns == {"Preferred", "Standard", "Graded", "GI"}
CountColumns == {"Quotes1", "Quotes2", "Submitted", "FreeLook"}

\* C19: in the re-aggregated table each count of an agent is the sum of
\* its weekly counts in range, and each percentage times the submitted
\* total is the sum of weekly percentage times weekly submitted count, the
\* percentage being 0 when the submitted total is 0.
C19_WeightedAverages ==
    SubRangeActive =>
      \A t \in agent_totals :
        LET rows == { r \in filtered_individual_data : r.Agent = t.Agent }
            total == SumOver(rows, [r \in rows |-> r.Submitted])
        IN  /\ rows # {}
            /\ \A c \in CountColumns :
                 t[c] = SumOver(rows, [r \in rows |-> r[c]])
            /\ \A c \in PercentageColumns :
                 IF total = 0
                 THEN t[c][1] = 0
                 ELSE t[c][1] * total =
                        t[c][2] *
                          SumOver(rows, [r \in rows |-> r[c] * r.Submitted])

\* C19 witness: a proper sub-range re-aggregated with one agent that
\* submitted nothing in range and one whose Preferred % over two weeks of
\* different weight is neither week's value nor their plain mean.
C19_Witness ==
    /\ SubRangeActive
    /\ weeks_in_range < total_weeks
    /\ \E t \in agent_totals : \E u \in agent_totals :
         /\ t.Submitted = 0 /\ t.Weeks_Active >= 1
         /\ EqQ(t.Preferred, QInt(0))
         /\ u.Weeks_Active = 2
         /\ EqQ(u.Preferred, Q(460, 11))

(***************************************************************************)
(* The session on an upload that may lack one numeric column.              *)
(***************************************************************************)
ColumnSets ==
    {AllColumns} \cup
    { AllColumns \ {c} : c \in {"Quotes1", "FreeLook", "Preferred", "GI"} }

\* a row with the columns cols only
drop_columns(r, cols) == [f \in DOMAIN r \cap cols |-> r[f]]

InitColumns ==
    /\ pc = "upload"
    /\ df_columns \in ColumnSets
    /\ df \in { { drop_columns(r, df_columns) : r \in t } : t \in AgentTables }
    /\ experienced_agents = {}
    /\ individual_data = {}
    /\ date_range_option = None
    /\ start_week = None
    /\ end_week = None
    /\ selected_agents = {}
    /\ selected_tiers = {}
    /\ filtered_individual_data = {}
    /\ agent_totals = {}
    /\ filtered_experienced_agents = {}
    /\ filtered_agents = {}
    /\ risk_data = {}
    /\ agent_row = None
    /\ risk_result = None
    /\ pct_value = None
    /\ cut_result = None
    /\ pending_rules = {}

SpecColumns == InitColumns /\ [][Next]_vars

\* the table with every absent column present and 0 in every row
zero_filled(d) ==
    { [f \in AllColumns |-> IF f \in DOMAIN r THEN r[f] ELSE 0] : r \in d }

\* C20: an upload that lacks a numeric column is processed without error
\* and gives the agent table of the same upload with the column all 0.
C20_MissingColumnAsZero ==
    (df_columns # AllColumns /\ pc # "upload") =>
      /\ pc # "error"
      /\ experienced_agents =
           process_agent_data(zero_filled(df)).experienced_agents

(***************************************************************************)
(* The session on an upload that may lack the Agent or the Week column:    *)
(* df['Week'] at line 164, groupby('Agent') at line 174.                   *)
(***************************************************************************)
StructuralColumnSets ==
    {AllColumns, AllColumns \ {"Agent"}, AllColumns \ {"Week"}}

InitStructure ==
    /\ pc = "upload"
    /\ df_columns \in StructuralColumnSets
    /\ df \in { { drop_columns(r, df_columns) : r \in t } : t \in AgentTables }
    /\ experienced_agents = {}
    /\ individual_data = {}
    /\ date_range_option = None
    /\ start_week = None
    /\ end_week = None
    /\ selected_agents = {}
    /\ selected_tiers = {}
    /\ filtered_individual_data = {}
    /\ agent_totals = {}
    /\ filtered_experienced_agents = {}
    /\ filtered_agents = {}
    /\ risk_data = {}
    /\ agent_row = None
    /\ risk_result = None
    /\ pct_value = None
    /\ cut_result = None
    /\ pending_rules = {}

SpecStructure == InitStructure /\ [][Next]_vars

\* C21: once an upload without the Agent or the Week column has been
\* processed, the session is in the error state and holds no agent table,
\* no re-aggregated table, no filtered table and no risk assessment.
C21_StructuralErrorNoPartialResult ==
    (pc # "upload" /\ ~({"Agent", "Week"} \subseteq df_columns)) =>
      /\ pc = "error"
      /\ experienced_agents = {}
      /\ agent_totals = {}
      /\ filtered_experienced_agents = {}
      /\ filtered_agents = {}
      /\ risk_data = {}

\* C21 witness: an upload of at least three rows without the Agent column
\* has ended in the error state.
C21_Witness ==
    /\ pc = "error"
    /\ "Agent" \notin df_columns
    /\ Cardinality(df) >= 3

\* C22: no agent identifier occurs in two records of the full-period
\* table, whatever the upload.
C22_OneRecordPerAgent ==
    \A e1 \in experienced_agents : \A e2 \in experienced_agents :
      e1.Agent = e2.Agent => e1 = e2

\* C23: a returned score is an integer from 0 to 15, the issue list has at
\* most 7 entries, and the score is 0 exactly when the list is empty.
C23_ScoreRange ==
    pc = "scored" =>
      /\ risk_result.risk_score \in 0..15
      /\ Len(risk_result.issues) <= 7
      /\ (risk_result.risk_score = 0 <=> risk_result.issues = <<>>)

\* C23 witness: a record on which every rule block fires, scored 15 with
\* seven issues.
C23_Witness ==
    /\ pc = "scored"
    /\ risk_result.risk_score = 15
    /\ Len(risk_result.issues) = 7

\* C24: a full-period record has Weeks_Active >= 2 and a sub-range record
\* has Weeks_Active >= 1, so Avg_Weekly_Submissions is submitted over a
\* positive number of weeks; the sub-range table keeps exactly the agents
\* that pass the submitted threshold, the week condition excluding none.
C24_WeeksActivePositive ==
    /\ \A e \in experienced_agents :
         /\ e.Weeks_Active >= 2
         /\ EqQ(e.Avg_Weekly_Submissions, Q(e.Submitted, e.Weeks_Active))
    /\ SubRangeActive =>
         /\ \A t \in agent_totals :
              /\ t.Weeks_Active >= 1
              /\ EqQ(t.Avg_Weekly_Submissions, Q(t.Submitted, t.Weeks_Active))
         /\ filtered_experienced_agents =
              { t \in agent_totals :
                  t.Submitted >= MIN_SUBMISSIONS_FILTERED(
                                    filtered_individual_data, individual_data) }

\* C24 witness: a sub-range of one week re-aggregated for an agent of the
\* full-period table, kept with Weeks_Active 1.
C24_Witness ==
    /\ SubRangeActive
    /\ experienced_agents # {}
    /\ \E t \in filtered_experienced_agents :
         /\ t.Weeks_Active = 1
         /\ \E e \in experienced_agents : e.Agent = t.Agent

\* the 'Low preferred rate' rule of lines 265-268 fires on a record whose
\* Preferred % is x
LowPreferredFires(x) ==
    low_preferred([Preferred |-> x],
                  [risk_score |-> 0, issues |-> <<>>]).issues # <<>>

\* C25: for a Preferred % from 0 to 100 the quality tier is Poor exactly
\* when the 'Low preferred rate' rule fires.
C25_PoorIffLowPreferred ==
    (pc = "cut" /\ Ge(pct_value, QInt(0)) /\ Le(pct_value, QInt(100))) =>
      (cut_result.Quality_Tier = "Poor" <=> LowPreferredFires(pct_value))

\* the issue of the 'Low conversion rate' rule at rate 0 is in the list
HasLowConversionAtZero(issues) ==
    \E i \in 1..Len(issues) :
      /\ issues[i].text = "Low conversion rate"
      /\ EqQ(issues[i].value, QInt(0))

\* C26: a record of the full-period table with no second-stage quote has
\* Conversion_Rate 0, and the risk scorer fires 'Low conversion rate' on
\* it with that 0 as the measured rate, adding 3, whatever its submitted
\* count; the risk tab shows it so.
C26_GuardValueScoredAsLowRate ==
    /\ \A e \in experienced_agents :
         e.Quotes2 = 0 =>
           /\ EqQ(e.Conversion_Rate, QInt(0))
           /\ calculate_risk_score(e).risk_score >= 3
           /\ HasLowConversionAtZero(calculate_risk_score(e).issues)
    /\ pc = "done" =>
         \A e \in filtered_agents :
           e.Quotes2 = 0 =>
             \E r \in risk_data :
               /\ r.Agent = e.Agent
               /\ r.Submissions = e.Submitted
               /\ r.Risk_Score >= 3
               /\ HasLowConversionAtZero(r.Issues)

\* C26 witness: the risk tab rendered for an agent with 10 or more
\* submissions and no second-stage quote.
C26_Witness ==
    /\ pc = "done"
    /\ \E e \in filtered_agents :
         /\ e.Quotes2 = 0
         /\ e.Submitted >= MIN_SUBMISSIONS
         /\ \E r \in risk_data :
              r.Agent = e.Agent /\ HasLowConversionAtZero(r.Issues)

\* the sidebar has run, to a table or to the error of line 484
SidebarDone == pc \in {"dashboard", "tabs", "exception", "done", "error"}

\* the requested range cannot be applied: lines 397, 401, 413-415
RangeNotApplicable ==
    \/ date_range_option = "Last 4 Weeks" /\ total_weeks < 4
    \/ date_range_option = "Last 8 Weeks" /\ total_weeks < 8
    \/ /\ date_range_option = "Custom Range"
       /\ start_week # None /\ end_week # None
       /\ index_of(available_weeks(individual_data), start_week) >
            index_of(available_weeks(individual_data), end_week)

\* the table of the re-aggregation path over every weekly row: sums per
\* agent, submitted threshold 10, one active week, no quote threshold
ReaggregatedWholePeriod ==
    { t \in reaggregate(individual_data) :
        t.Submitted >= 10 /\ t.Weeks_Active >= 1 }

\* the sidebar ran with a range that cannot be applied and gave a table
InapplicableRangeTable ==
    (SidebarDone /\ RangeNotApplicable) =>
      /\ filtered_individual_data = individual_data
      /\ filtered_experienced_agents = ReaggregatedWholePeriod

\* C27: when the requested range cannot be applied the sidebar still ends
\* with a table, built from every weekly row by the re-aggregation path;
\* with 'All Weeks', and only then, the table is that of
\* process_agent_data.
C27_InapplicableRangeReaggregates ==
    /\ (SidebarDone /\ RangeNotApplicable) => pc # "error"
    /\ InapplicableRangeTable
    /\ (SidebarDone /\ date_range_option = "All Weeks") =>
         filtered_experienced_agents = experienced_agents
    /\ (SidebarDone /\ date_range_option # "All Weeks" /\ pc # "error") =>
         filtered_experienced_agents =
           requalify(agent_totals, filtered_individual_data, individual_data)
====
